---- MODULE Spec2Model ----
(***************************************************************************)
(* Model of the accessibilityCheck tool handler of the MCP accessibility   *)
(* checker (index.js): module loading with cache eviction, missing-prop    *)
(* detection, provider wrapping, the jsdom document, the axe run raced     *)
(* against a 30 second timer, and the result / error response.             *)
(***************************************************************************)
EXTENDS Integers, Sequences, FiniteSets, TLC

(***************************************************************************)
(* Bounds of the model.                                                    *)
(***************************************************************************)
MaxCalls == 2      \* invocations of the handler in one behaviour
MaxEdits == 1      \* saves of the project files in one behaviour
MaxDecl == 2       \* declared property names in an explored propTypes

Calls == 1..MaxCalls

VARIABLES
  disk,        \* path -> version of the file on disk (0: no such file)
  cache,       \* require.cache: resolved path -> version loaded (0: absent)
  pc,          \* call -> "idle" | "awaiting" | "done"
  pagePath,    \* call -> the pagePath argument
  props,       \* call -> own keys of the props argument
  loaded,      \* call -> versions of the target and of its dependency in use
  missing,     \* call -> the missingProps array of the call
  dom,         \* call -> the document its `dom` constant is bound to (0: none)
  docs,        \* sequence of documents created: creator, audits, closes
  promise,     \* call -> state of the promise awaited at the audit
  engine,      \* call -> state of the axe run of the call
  timeout,     \* call -> state of the 30 second timer of the call
  response,    \* call -> what the handler handed back to its caller
  prevDone,    \* call -> had every earlier call returned when it started
  propTypes,   \* explored declared schema (property checks)
  supplied,    \* explored props argument (property checks)
  missingProps,\* the computed missing list (property checks)
  report,      \* the result object assembled from it (property checks)
  probes,      \* explored state of the target project's providers
  element      \* the element built for rendering (wrapping checks)

callVars == <<pc, pagePath, props, loaded, missing, dom, docs, promise,
              engine, timeout, response, prevDone>>
fileVars == <<disk, cache>>
propVars == <<propTypes, supplied, missingProps, report>>
wrapVars == <<probes, element>>
vars == <<disk, cache, pc, pagePath, props, loaded, missing, dom, docs,
          promise, engine, timeout, response, prevDone, propTypes, supplied,
          missingProps, report, probes, element>>

(***************************************************************************)
(* Step 3: missing props.  A propTypes object is the sequence of its       *)
(* entries in the order they were written; a props object is the set of    *)
(* its own keys.                                                           *)
(***************************************************************************)
NoPropTypes == <<>>

\* Keys that are canonical array indices, with their numeric value.
IndexKeys == {"1", "2"}
IndexValue(k) == IF k = "1" THEN 1 ELSE 2

\* Properties every plain object inherits from Object.prototype.
ObjectPrototypeKeys == {"toString", "constructor"}

RECURSIVE AscendingIndexKeys(_)
AscendingIndexKeys(S) ==
  IF S = {} THEN <<>>
  ELSE LET k == CHOOSE x \in S : \A y \in S : IndexValue(x) <= IndexValue(y)
       IN <<k>> \o AscendingIndexKeys(S \ {k})

IsStringKey(e) == e.name \notin IndexKeys

NamesOf(pt) == [i \in 1..Len(pt) |-> pt[i].name]

\* Object.keys(o): index keys in ascending order, then the others in the
\* order they were added.
ObjectKeys(pt) ==
  AscendingIndexKeys({pt[i].name : i \in 1..Len(pt)} \cap IndexKeys)
    \o NamesOf(SelectSeq(pt, IsStringKey))

\* propName in props: own or inherited property.
PropIn(propName, p) == propName \in p \/ propName \in ObjectPrototypeKeys

RECURSIVE PushMissing(_, _)
PushMissing(keys, p) ==
  IF keys = <<>> THEN <<>>
  ELSE (IF ~PropIn(Head(keys), p) THEN <<Head(keys)>> ELSE <<>>)
         \o PushMissing(Tail(keys), p)

MissingProps(pt, p) ==
  IF pt # NoPropTypes THEN PushMissing(ObjectKeys(pt), p) ELSE <<>>

(***************************************************************************)
(* The target project: the files a request can name.  Page.jsx is a page   *)
(* like SamplePage.jsx that also imports the sibling module Widget.jsx;    *)
(* data.js exports a plain object; Broken.jsx exports a component whose    *)
(* render does `throw props.title`; missing.jsx does not exist.            *)
(***************************************************************************)
Paths == {"Page.jsx", "Widget.jsx", "data.js", "Broken.jsx", "missing.jsx"}
Targets == {"Page.jsx", "data.js", "Broken.jsx", "missing.jsx"}
Editable == {"Page.jsx", "Widget.jsx"}
PropSets == {{}, {"title"}}

Imports(key) == IF key = "Page.jsx" THEN {"Widget.jsx"} ELSE {}

\* typeof (componentModule.default || componentModule)
TypeOfExport(key) == IF key = "data.js" THEN "object" ELSE "function"

\* SamplePage.propTypes: both entries are PropTypes.string, not .isRequired.
SamplePagePropTypes ==
  << [name |-> "title", required |-> FALSE],
     [name |-> "username", required |-> FALSE] >>

PropTypesOf(key) ==
  IF key \in {"Page.jsx", "Broken.jsx"} THEN SamplePagePropTypes
  ELSE NoPropTypes

(***************************************************************************)
(* Values that can be thrown, and what the catch block reads from them.    *)
(***************************************************************************)
ErrorOf(msg) == [type |-> "Error", message |-> msg]
StringValue == [type |-> "string"]
UndefinedValue == [type |-> "undefined"]

LoadMsg == "Cannot find module"
NotComponentMsg == "does not export a valid React component"
InjectMsg == "axe source failed to evaluate"
RunMsg == "axe.run threw"
AuditMsg == "axe rejected"
TimeoutMsg == "axe-core timed out after 30 seconds"
ReadOfUndefinedMsg == "Cannot read properties of undefined"
Hint == "Make sure the file exists, exports a valid React component"

(***************************************************************************)
(* Step 2: the module cache.                                               *)
(***************************************************************************)
\* require.resolve(fullPath) finds a file.
Resolves(d, key) == d[key] # 0

\* delete require.cache[key]
EvictNone(c, key) == c
EvictAll(c, key) == [k \in DOMAIN c |-> 0]
Evict(c, key) == [c EXCEPT ![key] = 0]

\* require(key) of an existing file: a cached module is returned as it is,
\* any other is read from disk, and so are the modules it imports.
RECURSIVE Require(_, _, _)
Require(c, d, key) ==
  IF c[key] # 0 THEN c
  ELSE LET own == [c EXCEPT ![key] = d[key]]
           imp == Imports(key)
       IN IF imp = {} THEN own
          ELSE Require(own, d, CHOOSE k \in imp : TRUE)

\* Versions of the target and of its import that the loaded component uses.
InUse(c, key) ==
  [target |-> c[key],
   dep |-> IF Imports(key) = {} THEN 0
           ELSE c[CHOOSE k \in Imports(key) : TRUE]]

(***************************************************************************)
(* Step 4: wrapping in the providers of the target project.  An element is *)
(* the sequence of its nested types, outermost first.                      *)
(***************************************************************************)
ProbeStates == {"absent", "broken", "present"}
MuiStates == ProbeStates \cup {"noCreateTheme"}
ThemeFileStates == {"missing", "theme", "falsy"}
themeLocations == <<"src/theme.jsx", "src/theme.js", "src/theme.tsx", "src/theme.ts">>

\* The first location whose require does not throw (0: none).
RECURSIVE FirstLoadable(_, _)
FirstLoadable(files, i) ==
  IF i > Len(themeLocations) THEN 0
  ELSE IF files[i] # "missing" THEN i
  ELSE FirstLoadable(files, i + 1)

\* An exception on its way out of a block.
Raised == <<[type |-> "raised"]>>

\* try { body } catch { }: the element stays as it was when the body throws.
TryRethrow(body, el) == body
TryCatch(body, el) == IF body = Raised THEN el ELSE body

\* The body of the first try: resolve and require react-router-dom, wrap.
RouterBody(el, pr) ==
  IF pr.router # "present" THEN Raised
  ELSE <<[type |-> "MemoryRouter"]>> \o el

\* The body of the second try: resolve and require @mui/material/styles,
\* take the first theme file that loads, else createTheme(), wrap.
ThemeBody(el, pr) ==
  IF pr.mui \in {"absent", "broken"} THEN Raised
  ELSE LET i == FirstLoadable(pr.themes, 1)
           found == i # 0 /\ pr.themes[i] = "theme"
       IN IF found
          THEN <<[type |-> "ThemeProvider", theme |-> themeLocations[i]]>> \o el
          ELSE IF pr.mui = "noCreateTheme" THEN Raised
          ELSE <<[type |-> "ThemeProvider", theme |-> "createTheme()"]>> \o el

BuildElement(key, p, pr) ==
  LET bare == <<[type |-> key, props |-> p]>>
      routed == TryCatch(RouterBody(bare, pr), bare)
  IN TryCatch(ThemeBody(routed, pr), routed)

\* The project of SamplePage.jsx has neither react-router-dom nor MUI.
ProjectProbes ==
  [router |-> "absent", mui |-> "absent",
   themes |-> [i \in 1..4 |-> "missing"]]

(***************************************************************************)
(* Steps 4 to 7: the renderer and the auditor are deterministic            *)
(* collaborators; what they return is a function of what they are given.   *)
(***************************************************************************)
NoThrow == [type |-> "none"]

\* ReactDOMServer.renderToString(element) of Broken.jsx throws props.title:
\* a string when the title is supplied, undefined when it is not.
RenderThrows(key, p) ==
  IF key # "Broken.jsx" THEN NoThrow
  ELSE IF "title" \in p THEN StringValue
  ELSE UndefinedValue

RawNode(h) == [html |-> h, failureSummary |-> "Fix any of the following", target |-> h]

RawViolation(rule, imp, n) ==
  [id |-> rule, impact |-> imp, help |-> rule, tags |-> "wcag2a",
   nodes |-> [i \in 1..n |-> RawNode(rule)]]

\* axe.run(document): the violations of a document.
Audit(html) ==
  (IF html.use.target % 2 = 1 THEN <<RawViolation("image-alt", "critical", 2)>> ELSE <<>>)
  \o (IF html.use.dep = 1 THEN <<RawViolation("label", "serious", 1)>> ELSE <<>>)
  \o (IF "title" \notin html.element[Len(html.element)].props
      THEN <<RawViolation("empty-heading", "minor", 1)>> ELSE <<>>)

FormatNode(node) == [html |-> node.html, failureSummary |-> node.failureSummary]

FormatViolation(violation) ==
  [id |-> violation.id, impact |-> violation.impact, help |-> violation.help,
   nodes |-> [i \in 1..Len(violation.nodes) |-> FormatNode(violation.nodes[i])]]

\* axeResults.violations.map(...)
FormatViolations(raw) == [i \in 1..Len(raw) |-> FormatViolation(raw[i])]

RECURSIVE NodeCount(_)
NodeCount(violations) ==
  IF violations = <<>> THEN 0
  ELSE Len(Head(violations).nodes) + NodeCount(Tail(violations))

PassSummary == "No accessibility violations found!"
FailSummary(n) == <<"Found", n, "accessibility violation(s)">>

\* The result object of step 8.
CheckResultCountingNodes(fullPath, violations, mp) ==
  [filePath |-> fullPath, totalViolations |-> NodeCount(violations),
   violations |-> violations, summary |-> PassSummary]
CheckResult(fullPath, violations, mp) ==
  LET summary == IF Len(violations) = 0 THEN PassSummary
                 ELSE FailSummary(Len(violations))
  IN IF Len(mp) > 0
     THEN [filePath |-> fullPath, totalViolations |-> Len(violations),
           violations |-> violations, missingProps |-> mp, summary |-> summary]
     ELSE [filePath |-> fullPath, totalViolations |-> Len(violations),
           violations |-> violations, summary |-> summary]

Success(result) == [kind |-> "result", result |-> result]

\* The catch block: error.message of undefined is a TypeError that leaves
\* the handler; a string has no message, and JSON.stringify drops the key.
CatchBlock(error) ==
  IF error.type = "undefined"
  THEN [kind |-> "thrown", value |-> ErrorOf(ReadOfUndefinedMsg)]
  ELSE IF error.type = "Error"
  THEN [kind |-> "error", isError |-> TRUE,
        payload |-> [error |-> error.message, hint |-> Hint]]
  ELSE [kind |-> "error", isError |-> TRUE, payload |-> [hint |-> Hint]]

(***************************************************************************)
(* The promise awaited at the audit, and the documents.                    *)
(***************************************************************************)
NoPromise == [state |-> "none"]
Pending == [state |-> "pending"]

Resolve(p, value) ==
  IF p.state = "pending" THEN [state |-> "fulfilled", value |-> value] ELSE p

RejectAsResolve(p, reason) ==
  IF p.state = "pending" THEN [state |-> "fulfilled", value |-> reason] ELSE p
Reject(p, reason) ==
  IF p.state = "pending" THEN [state |-> "rejected", reason |-> reason] ELSE p

\* clearTimeout(timeout)
ClearTimeoutForgotten(t) == t
ClearTimeout(t) == IF t = "armed" THEN "cleared" ELSE t

NewDocument(c, html) ==
  [creator |-> c, html |-> html, auditedBy |-> {}, closedBy |-> <<>>]

\* The document a call reaches through its `dom` constant.
LatestDom(c) == Len(docs)
DomOf(c) == dom[c]

(***************************************************************************)
(* The handler.  JavaScript runs a callback to completion, and the         *)
(* continuation of an await runs as a microtask right after the callback   *)
(* that settled the awaited promise, before any other callback.  So the    *)
(* handler runs from its entry to the await (or to its return, when a step *)
(* throws or the promise is settled already) in one step, and from the     *)
(* settled promise to its return within the step of the engine or timer    *)
(* callback that settled it.                                               *)
(***************************************************************************)
Unset == <<"unset">>
NoReport == [filePath |-> "unset"]

InitFiles ==
  /\ disk = [k \in Paths |-> IF k = "missing.jsx" THEN 0 ELSE 1]
  /\ cache = [k \in Paths |-> 0]

InitCalls ==
  /\ pc = [c \in Calls |-> "idle"]
  /\ pagePath = [c \in Calls |-> "none"]
  /\ props = [c \in Calls |-> {}]
  /\ loaded = [c \in Calls |-> [target |-> 0, dep |-> 0]]
  /\ missing = [c \in Calls |-> <<>>]
  /\ dom = [c \in Calls |-> 0]
  /\ docs = <<>>
  /\ promise = [c \in Calls |-> NoPromise]
  /\ engine = [c \in Calls |-> "none"]
  /\ timeout = [c \in Calls |-> "none"]
  /\ response = [c \in Calls |-> [kind |-> "none"]]
  /\ prevDone = [c \in Calls |-> FALSE]

InitProps ==
  /\ propTypes = NoPropTypes
  /\ supplied = {}
  /\ missingProps = Unset
  /\ report = NoReport

InitWrap ==
  /\ probes = ProjectProbes
  /\ element = <<>>

Init == InitFiles /\ InitCalls /\ InitProps /\ InitWrap

\* Steps 7 and 8 and the catch block: what the handler returns once the
\* awaited promise is settled.
HasViolations(settled) ==
  settled.state = "fulfilled" /\ "violations" \in DOMAIN settled.value

AfterAwait(settled, fullPath, mp) ==
  IF settled.state = "rejected" THEN CatchBlock(settled.reason)
  ELSE IF HasViolations(settled)
  THEN Success(CheckResult(fullPath, FormatViolations(settled.value.violations), mp))
  ELSE CatchBlock(ErrorOf(ReadOfUndefinedMsg))

\* dom.window.close(), reached only when the violations were formatted.
CloseAfterAwait(c, settled) ==
  IF HasViolations(settled)
  THEN [docs EXCEPT ![DomOf(c)].closedBy = Append(@, c)]
  ELSE docs

\* A callback settles the promise of call c: when the handler is waiting on
\* it, the handler runs to its return.
Settle(c, settled) ==
  /\ promise' = [promise EXCEPT ![c] = settled]
  /\ IF pc[c] = "awaiting" /\ promise[c].state = "pending"
     THEN /\ pc' = [pc EXCEPT ![c] = "done"]
          /\ response' = [response EXCEPT ![c] =
                            AfterAwait(settled, pagePath[c], missing[c])]
          /\ docs' = CloseAfterAwait(c, settled)
     ELSE UNCHANGED <<pc, response, docs>>

\* The handler from its entry to the await, or to its return when a step
\* throws.  inject and run are what the engine does when its source is
\* evaluated and when axe.run is called.
Invoke(c, path, p, inject, run) ==
  /\ pc[c] = "idle"
  /\ \A k \in Calls : k < c => pc[k] # "idle"
  /\ LET fullPath == path
         found == Resolves(disk, fullPath)
         evicted == IF found THEN Evict(cache, fullPath) ELSE cache
         required == IF found THEN Require(evicted, disk, fullPath) ELSE evicted
         isComponent == found /\ TypeOfExport(fullPath) = "function"
         mp == IF isComponent THEN MissingProps(PropTypesOf(fullPath), p) ELSE <<>>
         el == BuildElement(fullPath, p, ProjectProbes)
         rendered == isComponent /\ RenderThrows(fullPath, p) = NoThrow
         html == [element |-> el, use |-> InUse(required, fullPath)]
         thrown == IF ~found THEN ErrorOf(LoadMsg)
                   ELSE IF ~isComponent THEN ErrorOf(NotComponentMsg)
                   ELSE IF ~rendered THEN RenderThrows(fullPath, p)
                   ELSE IF inject = "throws" THEN ErrorOf(InjectMsg)
                   ELSE NoThrow
         awaited == IF run = "starts" THEN Pending
                    ELSE Reject(Pending, ErrorOf(RunMsg))
     IN /\ rendered \/ inject = "ok"
        /\ thrown = NoThrow \/ run = "starts"
        /\ cache' = required
        /\ pagePath' = [pagePath EXCEPT ![c] = path]
        /\ props' = [props EXCEPT ![c] = p]
        /\ prevDone' = [prevDone EXCEPT ![c] = \A k \in Calls : k < c => pc[k] = "done"]
        /\ loaded' = [loaded EXCEPT ![c] =
                        IF isComponent THEN InUse(required, fullPath) ELSE @]
        /\ missing' = [missing EXCEPT ![c] = mp]
        /\ dom' = [dom EXCEPT ![c] = IF rendered THEN Len(docs) + 1 ELSE @]
        /\ docs' = IF ~rendered THEN docs
                   ELSE Append(docs,
                     [NewDocument(c, html) EXCEPT
                        !.auditedBy = IF thrown = NoThrow /\ run = "starts"
                                      THEN {c} ELSE {}])
        /\ IF thrown # NoThrow
           THEN /\ pc' = [pc EXCEPT ![c] = "done"]
                /\ response' = [response EXCEPT ![c] = CatchBlock(thrown)]
                /\ UNCHANGED <<promise, engine, timeout>>
           ELSE /\ timeout' = [timeout EXCEPT ![c] = "armed"]
                /\ engine' = [engine EXCEPT ![c] =
                                IF run = "starts" THEN "running" ELSE "threw"]
                /\ promise' = [promise EXCEPT ![c] = awaited]
                /\ pc' = [pc EXCEPT ![c] =
                            IF awaited = Pending THEN "awaiting" ELSE "done"]
                /\ response' = [response EXCEPT ![c] =
                                  IF awaited = Pending THEN @
                                  ELSE AfterAwait(awaited, path, mp)]
  /\ UNCHANGED <<disk, propVars, wrapVars>>

\* The .then callback of axe.run: clearTimeout, resolve(results).
EngineResolves(c) ==
  /\ engine[c] = "running"
  /\ engine' = [engine EXCEPT ![c] = "resolved"]
  /\ timeout' = [timeout EXCEPT ![c] = ClearTimeout(@)]
  /\ Settle(c, Resolve(promise[c], [violations |-> Audit(docs[dom[c]].html)]))
  /\ UNCHANGED <<fileVars, pagePath, props, loaded, missing, dom, prevDone,
                 propVars, wrapVars>>

\* The .catch callback of axe.run: clearTimeout, reject(err).
EngineRejects(c) ==
  /\ engine[c] = "running"
  /\ engine' = [engine EXCEPT ![c] = "rejected"]
  /\ timeout' = [timeout EXCEPT ![c] = ClearTimeout(@)]
  /\ Settle(c, Reject(promise[c], ErrorOf(AuditMsg)))
  /\ UNCHANGED <<fileVars, pagePath, props, loaded, missing, dom, prevDone,
                 propVars, wrapVars>>

\* The setTimeout callback, 30 seconds after it was armed.
TimerFires(c) ==
  /\ timeout[c] = "armed"
  /\ timeout' = [timeout EXCEPT ![c] = "fired"]
  /\ Settle(c, Reject(promise[c], ErrorOf(TimeoutMsg)))
  /\ UNCHANGED <<fileVars, pagePath, props, loaded, missing, dom, engine,
                 prevDone, propVars, wrapVars>>

\* The developer saves a new version of a file of the project.
Edits == (disk["Page.jsx"] - 1) + (disk["Widget.jsx"] - 1)

Edit(f) ==
  /\ Edits < MaxEdits
  /\ disk' = [disk EXCEPT ![f] = @ + 1]
  /\ UNCHANGED <<cache, callVars, propVars, wrapVars>>

Call ==
  \E c \in Calls, path \in Targets, p \in PropSets,
     inject \in {"ok", "throws"}, run \in {"starts", "throws"} :
    Invoke(c, path, p, inject, run)

Resolved == \E c \in Calls : EngineResolves(c)

Rejected == \E c \in Calls : EngineRejects(c)

Timer == \E c \in Calls : TimerFires(c)

Save == \E f \in Editable : Edit(f)

Next == Call \/ Resolved \/ Rejected \/ Timer \/ Save

Spec == Init /\ [][Next]_vars

(***************************************************************************)
(* Missing-prop detection and the result object over explored schemas and  *)
(* props objects.                                                          *)
(***************************************************************************)
SchemaNames == {"title", "username", "Title", "1", "2", "toString"}
SuppliedNames == {"title", "username", "Title", "2"}
Entries == [name : SchemaNames, required : BOOLEAN]

Schemas ==
  {pt \in UNION {[1..n -> Entries] : n \in 0..MaxDecl} :
     \A i, j \in 1..Len(pt) : i # j => pt[i].name # pt[j].name}

ExploreProps ==
  /\ propTypes \in Schemas
  /\ supplied \in SUBSET SuppliedNames
  /\ missingProps = Unset
  /\ report = NoReport

\* Step 3 of the handler.
DetectMissing ==
  /\ missingProps = Unset
  /\ missingProps' = MissingProps(propTypes, supplied)
  /\ UNCHANGED <<fileVars, callVars, propTypes, supplied, report, wrapVars>>

\* Step 8 of the handler, for an audit without violations.
AssembleResult ==
  /\ missingProps # Unset
  /\ report = NoReport
  /\ report' = CheckResult("Page.jsx", FormatViolations(<<>>), missingProps)
  /\ UNCHANGED <<fileVars, callVars, propTypes, supplied, missingProps, wrapVars>>

NextProps == DetectMissing \/ AssembleResult

InitExploreProps == InitFiles /\ InitCalls /\ ExploreProps /\ InitWrap

SpecProps == InitExploreProps /\ [][NextProps]_vars

(***************************************************************************)
(* Wrapping over explored states of the target project.                    *)
(***************************************************************************)
ExploreWrap ==
  /\ probes \in [router : ProbeStates, mui : MuiStates,
                 themes : [1..Len(themeLocations) -> ThemeFileStates]]
  /\ element = <<>>

\* Step 4 of the handler up to the render.
Wrap ==
  /\ element = <<>>
  /\ element' = BuildElement("Page.jsx", {"title"}, probes)
  /\ UNCHANGED <<fileVars, callVars, propVars, probes>>

NextWrap == Wrap

InitExploreWrap == InitFiles /\ InitCalls /\ InitProps /\ ExploreWrap

SpecWrap == InitExploreWrap /\ [][NextWrap]_vars

(***************************************************************************)
(* Properties.                                                             *)
(***************************************************************************)
DocsOf(c) == {d \in 1..Len(docs) : docs[d].creator = c}

ErrorResponse(msg) ==
  [kind |-> "error", isError |-> TRUE, payload |-> [error |-> msg, hint |-> Hint]]

\* C1: when the handler has returned, every document created for the call
\* has been closed exactly once, whichever way the call ended.
C1_DocumentsReleased ==
  \A c \in Calls :
    pc[c] = "done" => \A d \in DocsOf(c) : Len(docs[d].closedBy) = 1

\* C2: every call that has ended handed back a Check Result or the uniform
\* error response (isError, an error message and the hint); no exception
\* left the handler.
C2_UniformErrorResponse ==
  \A c \in Calls :
    pc[c] = "done" =>
      /\ response[c].kind \in {"result", "error"}
      /\ response[c].kind = "error" =>
           /\ response[c].isError
           /\ DOMAIN response[c].payload = {"error", "hint"}
           /\ response[c].payload.hint = Hint

\* C3: when the timer fires while the engine run is still pending, the call
\* ends at once in the error response with the timeout message, the run is
\* left running, and the response stays that one whatever the run does
\* later.
TimedOut(c) ==
  promise[c] = [state |-> "rejected", reason |-> ErrorOf(TimeoutMsg)]

C3_TimeoutFails ==
  /\ [][\A c \in Calls :
          (timeout[c] = "armed" /\ timeout'[c] = "fired" /\ engine[c] = "running")
            => /\ TimedOut(c)'
               /\ pc'[c] = "done"
               /\ engine'[c] = "running"]_vars
  /\ [](\A c \in Calls :
          TimedOut(c) => pc[c] = "done" /\ response[c] = ErrorResponse(TimeoutMsg))

C3_Witness ==
  \E c \in Calls :
    /\ pc[c] = "done"
    /\ timeout[c] = "fired"
    /\ engine[c] = "running"
    /\ response[c] = ErrorResponse(TimeoutMsg)

\* C4: every name in the missing list is declared as required by the
\* component's propTypes.
C4_OnlyRequiredReported ==
  missingProps # Unset =>
    \A i \in 1..Len(missingProps) :
      \E j \in 1..Len(propTypes) :
        propTypes[j].name = missingProps[i] /\ propTypes[j].required

\* C5: the missing list is the declared names that are not keys of the
\* supplied props, in declaration order, and the result has a missingProps
\* field exactly when that list is not empty.
NotSupplied(name) == name \notin supplied

DeclaredAbsent == SelectSeq(NamesOf(propTypes), NotSupplied)

C5_MissingIsDeclaredAbsent ==
  /\ missingProps # Unset => missingProps = DeclaredAbsent
  /\ report # NoReport =>
       ("missingProps" \in DOMAIN report <=> DeclaredAbsent # <<>>)

\* C6: a check evicts the cache entry of its resolved target only and loads
\* it again, so the component it uses is the target file as it is on disk
\* at that moment, and every other cached module stays cached as it was.
Starts(c) == pc[c] = "idle" /\ pc'[c] # "idle"

C6_EvictThenLoad ==
  [][\A c \in Calls :
       Starts(c) =>
         LET key == pagePath'[c]
         IN /\ disk[key] # 0 => cache'[key] = disk[key]
            /\ (disk[key] # 0 /\ TypeOfExport(key) = "function")
                 => loaded'[c].target = disk[key]
            /\ \A k \in Paths \ {key} : cache[k] # 0 => cache'[k] = cache[k]]_vars

C6_Witness ==
  /\ MaxCalls >= 2
  /\ pagePath[1] = "Page.jsx" /\ pagePath[2] = "Page.jsx"
  /\ loaded[1] = [target |-> 1, dep |-> 1]
  /\ loaded[2] = [target |-> 2, dep |-> 1]
  /\ cache["Widget.jsx"] = 1

\* C7: whatever providers the project has or lacks, and whichever probe
\* fails, an element is built: the component, inside MemoryRouter when the
\* router probe succeeds, inside ThemeProvider when the theme probe
\* succeeds, ThemeProvider outermost.
TypesOf(el) == [i \in 1..Len(el) |-> el[i].type]

RouterPart == IF probes.router = "present" THEN <<"MemoryRouter">> ELSE <<>>

C7_WrapNeverRaises ==
  element # <<>> =>
    LET types == TypesOf(element)
        n == Len(types)
    IN /\ element[n] = [type |-> "Page.jsx", props |-> {"title"}]
       /\ \A i \in 1..n : types[i] # "raised"
       /\ SubSeq(types, n - Len(RouterPart), n) = RouterPart \o <<"Page.jsx">>
       /\ probes.mui \in {"absent", "broken"} => n = Len(RouterPart) + 1
       /\ probes.mui = "present" =>
            types = <<"ThemeProvider">> \o RouterPart \o <<"Page.jsx">>

C7_Witness ==
  /\ probes.router = "broken"
  /\ probes.mui = "present"
  /\ TypesOf(element) = <<"ThemeProvider", "Page.jsx">>

C9_OwnDocument ==
  /\ \A d \in 1..Len(docs) :
       /\ docs[d].auditedBy \subseteq {docs[d].creator}
       /\ \A i \in 1..Len(docs[d].closedBy) : docs[d].closedBy[i] = docs[d].creator
  /\ \A c \in Calls : dom[c] # 0 => docs[dom[c]].creator = c
  /\ \A c1, c2 \in Calls : (c1 # c2 /\ dom[c1] # 0) => dom[c1] # dom[c2]

C9_Witness ==
  /\ MaxCalls >= 2
  /\ pc[1] = "awaiting"
  /\ pc[2] = "done"
  /\ dom[1] # 0 /\ dom[2] # 0
  /\ docs[dom[1]].closedBy = <<>>
  /\ docs[dom[2]].closedBy = <<2>>

\* C10: two checks one after the other of the same unmodified file with the
\* same props give the same totalViolations and the same rule ids in the
\* same order.
IdsOf(c) ==
  [i \in 1..Len(response[c].result.violations) |->
     response[c].result.violations[i].id]

InSuccession(c1, c2) ==
  /\ c2 = c1 + 1
  /\ prevDone[c2]
  /\ response[c1].kind = "result" /\ response[c2].kind = "result"
  /\ pagePath[c1] = pagePath[c2]
  /\ props[c1] = props[c2]
  /\ loaded[c1].target = loaded[c2].target

C10_Idempotent ==
  \A c1, c2 \in Calls :
    InSuccession(c1, c2) =>
      /\ response[c1].result.totalViolations = response[c2].result.totalViolations
      /\ IdsOf(c1) = IdsOf(c2)

C10_Witness ==
  /\ MaxCalls >= 2
  /\ InSuccession(1, 2)
  /\ pagePath[1] = "Page.jsx"
  /\ disk["Widget.jsx"] = 2
  /\ loaded[2].dep = 1
  /\ IdsOf(2) # <<>>

\* C11: the awaited promise settles once, by the first of engine-resolves,
\* engine-rejects and timer-fires; that event alone fixes the response,
\* which no later event changes or repeats, and when the engine settles it
\* the timer is cleared and never fires.
IsSettled(c) == promise[c].state \in {"fulfilled", "rejected"}

EngineFirst(c) ==
  \/ engine[c] = "resolved" /\ promise[c].state = "fulfilled"
  \/ engine[c] = "rejected" /\ promise[c] = [state |-> "rejected",
                                             reason |-> ErrorOf(AuditMsg)]

C11_SettlesOnce ==
  /\ [][\A c \in Calls :
          /\ IsSettled(c) => promise'[c] = promise[c]
          /\ pc[c] = "done" =>
               /\ pc'[c] = "done"
               /\ response'[c] = response[c]
               /\ \A d \in DocsOf(c) : docs'[d] = docs[d]
          /\ timeout[c] = "cleared" => timeout'[c] = "cleared"]_vars
  /\ [](\A c \in Calls :
          /\ EngineFirst(c) => timeout[c] = "cleared" /\ pc[c] = "done"
          /\ (engine[c] = "resolved" /\ promise[c].state = "fulfilled")
               => /\ response[c].kind = "result"
                  /\ \A d \in DocsOf(c) : docs[d].closedBy = <<c>>
          /\ (engine[c] = "rejected" /\ EngineFirst(c))
               => response[c] = ErrorResponse(AuditMsg)
          /\ TimedOut(c) =>
               timeout[c] = "fired" /\ response[c] = ErrorResponse(TimeoutMsg))

C11_Witness ==
  \E c \in Calls :
    /\ TimedOut(c)
    /\ engine[c] = "resolved"
    /\ response[c] = ErrorResponse(TimeoutMsg)
    /\ \E k \in Calls : k # c /\ EngineFirst(k) /\ timeout[k] = "cleared"

====
